---- MODULE Spec2Model ----
(***************************************************************************)
(* Language negotiation (Language) and URL canonicalization                *)
(* (LanguageRedirect) middleware of ginapi/middleware.                     *)
(*                                                                         *)
(* A Go string is modelled as the sequence of its characters, each         *)
(* character a one-character TLA+ string, so that lower-casing, trimming,  *)
(* splitting, prefix/suffix tests and concatenation are computed as the    *)
(* Go code computes them.  A q-value (float64) is modelled as an integer   *)
(* number of thousandths.                                                  *)
(***************************************************************************)
EXTENDS Integers, Sequences, FiniteSets, TLC

VARIABLES lcfg, rcfg, lm, rm, jar, setBy, req, resp, pc,
          goctx, lastLang, fromCtx, gc, got,
          idPrefix, idNum, formatted, parseArg, parsed,
          workers, lastDone,
          pq, params, pcall, hm

\* one router, its client and the request in flight
webVars == <<lcfg, rcfg, lm, rm, jar, setBy, req, resp, pc>>

\* a context.Context and a *gin.Context used through the package's accessors
ctxVars == <<goctx, lastLang, fromCtx, gc, got>>

\* an id, its formatted text and a parse of some text (package ids)
idsVars == <<idPrefix, idNum, formatted, parseArg, parsed>>

\* the requests concurrently inside the Language handler, and the last one
\* that left it
concVars == <<workers, lastDone>>

\* a request's query and the Params bound from it, and a has-more call
\* (packages pagination and response)
pagVars == <<pq, params, pcall, hm>>

vars == <<webVars, ctxVars, idsVars, concVars, pagVars>>

(***************************************************************************)
(* Package strings / strconv, as used by the middleware.                   *)
(***************************************************************************)
Upper == <<"A","B","C","D","E","F","G","H","I","J","K","L","M",
           "N","O","P","Q","R","S","T","U","V","W","X","Y","Z">>

Lower == <<"a","b","c","d","e","f","g","h","i","j","k","l","m",
           "n","o","p","q","r","s","t","u","v","w","x","y","z">>

Digits == <<"0","1","2","3","4","5","6","7","8","9">>

\* unicode.ToLower on one ASCII character
ToLowerCh(ch) ==
    IF \E i \in 1..Len(Upper) : Upper[i] = ch
    THEN Lower[CHOOSE i \in 1..Len(Upper) : Upper[i] = ch]
    ELSE ch

\* strings.ToLower
ToLower(s) == [i \in 1..Len(s) |-> ToLowerCh(s[i])]

\* unicode.IsSpace on the characters a header or cookie can carry
IsSpace(ch) == ch \in {" ", "\t"}

\* strings.TrimSpace: drop leading and trailing white space
TrimSpace(s) ==
    LET keep == {i \in 1..Len(s) : ~IsSpace(s[i])}
    IN  IF keep = {} THEN <<>>
        ELSE LET lo == CHOOSE i \in keep : \A j \in keep : i <= j
                 hi == CHOOSE i \in keep : \A j \in keep : j <= i
             IN  SubSeq(s, lo, hi)

\* strings.Index(s, sep) for a one-character sep; Go's index plus one,
\* 0 where Go returns -1
Index(s, ch) ==
    LET hits == {i \in 1..Len(s) : s[i] = ch}
    IN  IF hits = {} THEN 0 ELSE CHOOSE i \in hits : \A j \in hits : i <= j

\* strings.HasPrefix
HasPrefix(s, p) == Len(p) <= Len(s) /\ SubSeq(s, 1, Len(p)) = p

\* strings.HasSuffix
HasSuffix(s, p) ==
    Len(p) <= Len(s) /\ SubSeq(s, Len(s) - Len(p) + 1, Len(s)) = p

\* strings.TrimPrefix
TrimPrefix(s, p) == IF HasPrefix(s, p) THEN SubSeq(s, Len(p) + 1, Len(s)) ELSE s

\* strings.Split(s, sep) for a one-character sep
RECURSIVE Split(_, _)
Split(s, ch) ==
    LET i == Index(s, ch)
    IN  IF i = 0 THEN <<s>>
        ELSE <<SubSeq(s, 1, i - 1)>> \o Split(SubSeq(s, i + 1, Len(s)), ch)

\* strings.SplitN(s, sep, 2) for a one-character sep
SplitN2(s, ch) ==
    LET i == Index(s, ch)
    IN  IF i = 0 THEN <<s>>
        ELSE <<SubSeq(s, 1, i - 1), SubSeq(s, i + 1, Len(s))>>

\* value of a decimal digit, -1 for any other character
DigitVal(ch) ==
    IF \E i \in 1..10 : Digits[i] = ch
    THEN (CHOOSE i \in 1..10 : Digits[i] = ch) - 1
    ELSE -1

IsDigits(s) == \A i \in 1..Len(s) : DigitVal(s[i]) >= 0

RECURSIVE DecVal(_)
DecVal(s) ==
    IF s = <<>> THEN 0 ELSE 10 * DecVal(SubSeq(s, 1, Len(s) - 1)) + DigitVal(s[Len(s)])

\* strconv.ParseFloat(s, 64) on plain decimal literals [+-]digits[.digits]
\* with at most three fraction digits: [err |-> FALSE, v |-> thousandths];
\* every other text is a syntax error (no exponent, inf, nan or hex forms
\* occur in the headers considered)
ParseFloat(s) ==
    LET neg   == s # <<>> /\ s[1] = "-"
        sgn   == s # <<>> /\ s[1] \in {"-", "+"}
        body  == IF sgn THEN Tail(s) ELSE s
        dot   == Index(body, ".")
        ip    == IF dot = 0 THEN body ELSE SubSeq(body, 1, dot - 1)
        fp    == IF dot = 0 THEN <<>> ELSE SubSeq(body, dot + 1, Len(body))
        pad   == IF Len(fp) = 0 THEN <<"0","0","0">>
                 ELSE IF Len(fp) = 1 THEN fp \o <<"0","0">>
                 ELSE IF Len(fp) = 2 THEN fp \o <<"0">>
                 ELSE fp
        ok    == /\ IsDigits(ip) /\ IsDigits(fp)
                 /\ Len(ip) + Len(fp) > 0
                 /\ Len(fp) <= 3
        mag   == 1000 * DecVal(ip) + DecVal(pad)
    IN  IF ok THEN [err |-> FALSE, v |-> IF neg THEN 0 - mag ELSE mag]
        ELSE [err |-> TRUE, v |-> 0]

(***************************************************************************)
(* net/url and gin request accessors.                                      *)
(***************************************************************************)
\* url.QueryUnescape on texts without percent escapes: '+' decodes to a space
QueryUnescape(s) == [i \in 1..Len(s) |-> IF s[i] = "+" THEN " " ELSE s[i]]

\* url.QueryEscape on texts of unreserved characters and spaces
QueryEscape(s) == [i \in 1..Len(s) |-> IF s[i] = " " THEN "+" ELSE s[i]]

\* one key=value pair of a raw query string, both sides unescaped
QueryPair(kv) ==
    LET p == SplitN2(kv, "=")
    IN  [key |-> QueryUnescape(p[1]),
         value |-> IF Len(p) = 2 THEN QueryUnescape(p[2]) ELSE <<>>]

\* c.Query(key): the first value of key in the URL's query string, "" if none
Query(r, key) ==
    LET parts == Split(r.rawQuery, "&")
        hits  == {i \in 1..Len(parts) : parts[i] # <<>> /\ QueryPair(parts[i]).key = key}
    IN  IF hits = {} THEN <<>>
        ELSE QueryPair(parts[CHOOSE i \in hits : \A j \in hits : i <= j]).value

\* c.Cookie(name): [err |-> TRUE] when the request carries no such cookie,
\* otherwise the unescaped value
Cookie(r, name) ==
    IF name \in DOMAIN r.cookies /\ r.cookies[name].present
    THEN [err |-> FALSE, value |-> QueryUnescape(r.cookies[name].value)]
    ELSE [err |-> TRUE, value |-> <<>>]

\* c.GetHeader("Accept-Language"): "" when the header is absent
GetHeaderAcceptLanguage(r) == r.acceptLanguage

(***************************************************************************)
(* Program constants.                                                      *)
(***************************************************************************)
sEn == <<"e","n">>

sLang == <<"l","a","n","g">>

LanguageCookieName == sLang

LanguageCookieMaxAge == 31536000

StatusFound == 302

DefaultSkipPaths ==
    << <<"/","a","p","i","/">>, <<"/","a","u","t","h","/">>,
       <<"/","o","a","u","t","h","/">>,
       <<"/",".","w","e","l","l","-","k","n","o","w","n","/">> >>

DefaultSkipExtensions ==
    << <<".","j","s">>, <<".","c","s","s">>, <<".","p","n","g">>,
       <<".","j","p","g">>, <<".","j","p","e","g">>, <<".","g","i","f">>,
       <<".","s","v","g">>, <<".","i","c","o">>, <<".","w","o","f","f">>,
       <<".","w","o","f","f","2">>, <<".","t","t","f">>, <<".","e","o","t">>,
       <<".","m","a","p">>, <<".","w","e","b","p">>, <<".","m","p","4">>,
       <<".","w","e","b","m">> >>

HealthPaths ==
    { <<"/","h","e","a","l","t","h">>, <<"/","h","e","a","l","t","h","z">>,
      <<"/","r","e","a","d","y","z">> }

RuntimeConfigPath ==
    <<"/","r","u","n","t","i","m","e","-","c","o","n","f","i","g",".","j","s">>

(***************************************************************************)
(* Locale resolver.                                                        *)
(***************************************************************************)
\* BuildSupportedMap: the set of lower-cased configured languages
BuildSupportedMap(languages) == {ToLower(languages[i]) : i \in 1..Len(languages)}

\* extractLanguageFromPath: the lower-cased first path segment when it is
\* 2 or 3 characters long, "" otherwise
extractLanguageFromPath(path) ==
    LET trimmed == TrimPrefix(path, <<"/">>)
        parts   == SplitN2(trimmed, "/")
        first   == parts[1]
    IN  IF Len(first) = 2 \/ Len(first) = 3 THEN ToLower(first) ELSE <<>>

\* the q-value of one trimmed header entry: 1.0 unless the text after the
\* first ';' starts with "q=" and the rest parses as a float
EntryQ(part) ==
    LET idx == Index(part, ";")
    IN  IF idx = 0 THEN 1000
        ELSE LET param == TrimSpace(SubSeq(part, idx + 1, Len(part)))
             IN  IF HasPrefix(param, <<"q","=">>)
                 THEN LET f == ParseFloat(TrimPrefix(param, <<"q","=">>))
                      IN  IF f.err THEN 1000 ELSE f.v
                 ELSE 1000

\* the base language of one trimmed header entry: the text before the first
\* ';', cut at the first '-', lower-cased and trimmed
EntryLang(part) ==
    LET idx    == Index(part, ";")
        range  == IF idx = 0 THEN part ELSE SubSeq(part, 1, idx - 1)
        hyphen == Index(range, "-")
        base   == IF hyphen = 0 THEN range ELSE SubSeq(range, 1, hyphen - 1)
    IN  ToLower(TrimSpace(base))

\* the candidate list built by the first loop of ParseAcceptLanguage
RECURSIVE Candidates(_)
Candidates(parts) ==
    IF parts = <<>> THEN <<>>
    ELSE LET part == TrimSpace(Head(parts))
         IN  IF part = <<>> \/ EntryLang(part) = <<>>
             THEN Candidates(Tail(parts))
             ELSE <<[lang |-> EntryLang(part), q |-> EntryQ(part)]>>
                  \o Candidates(Tail(parts))

\* the selection loop of ParseAcceptLanguage, from (bestLang, bestQ)
RECURSIVE Best(_, _, _, _)
Best(cands, supported, bestLang, bestQ) ==
    IF cands = <<>> THEN bestLang
    ELSE LET c == Head(cands)
         IN  IF c.lang \in supported /\ c.q > bestQ
             THEN Best(Tail(cands), supported, c.lang, c.q)
             ELSE Best(Tail(cands), supported, bestLang, bestQ)

\* ParseAcceptLanguage: the supported base language with the highest q,
\* "" when there is none; bestQ starts at -1
ParseAcceptLanguage(header, supported) ==
    Best(Candidates(Split(header, ",")), supported, <<>>, 0 - 1000)

\* resolveLanguage with the path prefix consulted before the query parameter
resolveLanguagePathFirst(r, supported, fallback, queryParam, cookieName) ==
    LET q  == ToLower(TrimSpace(Query(r, queryParam)))
        p  == extractLanguageFromPath(r.path)
        ck == Cookie(r, cookieName)
        cv == ToLower(TrimSpace(ck.value))
        al == ParseAcceptLanguage(r.acceptLanguage, supported)
    IN  IF p # <<>> /\ p \in supported THEN p
        ELSE IF q # <<>> /\ q \in supported THEN q
        ELSE IF cookieName # <<>> /\ ~ck.err /\ ck.value # <<>> /\ cv \in supported
             THEN cv
        ELSE IF r.acceptLanguage # <<>> /\ al # <<>> THEN al
        ELSE fallback

\* resolveLanguage with the cookie consulted before the path prefix
resolveLanguageCookieFirst(r, supported, fallback, queryParam, cookieName) ==
    LET q  == ToLower(TrimSpace(Query(r, queryParam)))
        p  == extractLanguageFromPath(r.path)
        ck == Cookie(r, cookieName)
        cv == ToLower(TrimSpace(ck.value))
        al == ParseAcceptLanguage(r.acceptLanguage, supported)
    IN  IF q # <<>> /\ q \in supported THEN q
        ELSE IF cookieName # <<>> /\ ~ck.err /\ ck.value # <<>> /\ cv \in supported
             THEN cv
        ELSE IF p # <<>> /\ p \in supported THEN p
        ELSE IF r.acceptLanguage # <<>> /\ al # <<>> THEN al
        ELSE fallback

\* resolveLanguage with Accept-Language consulted before the cookie
resolveLanguageHeaderFirst(r, supported, fallback, queryParam, cookieName) ==
    LET q  == ToLower(TrimSpace(Query(r, queryParam)))
        p  == extractLanguageFromPath(r.path)
        ck == Cookie(r, cookieName)
        cv == ToLower(TrimSpace(ck.value))
        al == ParseAcceptLanguage(r.acceptLanguage, supported)
    IN  IF q # <<>> /\ q \in supported THEN q
        ELSE IF p # <<>> /\ p \in supported THEN p
        ELSE IF r.acceptLanguage # <<>> /\ al # <<>> THEN al
        ELSE IF cookieName # <<>> /\ ~ck.err /\ ck.value # <<>> /\ cv \in supported
             THEN cv
        ELSE fallback

\* resolveLanguage ending in a hard-coded "en" instead of the fallback
resolveLanguageHardFallback(r, supported, fallback, queryParam, cookieName) ==
    LET q  == ToLower(TrimSpace(Query(r, queryParam)))
        p  == extractLanguageFromPath(r.path)
        ck == Cookie(r, cookieName)
        cv == ToLower(TrimSpace(ck.value))
        al == ParseAcceptLanguage(r.acceptLanguage, supported)
    IN  IF q # <<>> /\ q \in supported THEN q
        ELSE IF p # <<>> /\ p \in supported THEN p
        ELSE IF cookieName # <<>> /\ ~ck.err /\ ck.value # <<>> /\ cv \in supported
             THEN cv
        ELSE IF r.acceptLanguage # <<>> /\ al # <<>> THEN al
        ELSE sEn

\* resolveLanguage: query parameter, path prefix, cookie, Accept-Language,
\* fallback
resolveLanguage(r, supported, fallback, queryParam, cookieName) ==
    LET q  == ToLower(TrimSpace(Query(r, queryParam)))
        p  == extractLanguageFromPath(r.path)
        ck == Cookie(r, cookieName)
        cv == ToLower(TrimSpace(ck.value))
        h  == GetHeaderAcceptLanguage(r)
        al == ParseAcceptLanguage(h, supported)
    IN  IF q # <<>> /\ q \in supported THEN q
        ELSE IF p # <<>> /\ p \in supported THEN p
        ELSE IF cookieName # <<>> /\ ~ck.err /\ ck.value # <<>> /\ cv \in supported
             THEN cv
        ELSE IF h # <<>> /\ al # <<>> THEN al
        ELSE fallback

(***************************************************************************)
(* Middleware factories: the values each returned closure captures.        *)
(***************************************************************************)
\* Language(cfg) keeping the default as configured
LanguageRawDefault(c) ==
    LET m == {ToLower(c.Supported[i]) : i \in 1..Len(c.Supported)}
    IN  [supportedMap |-> IF m = {} THEN {sEn} ELSE m,
         defaultLang  |-> IF c.Default = <<>> THEN sEn ELSE c.Default,
         queryParam   |-> IF c.QueryParam = <<>> THEN sLang ELSE c.QueryParam,
         cookieName   |-> IF c.CookieName = <<>> THEN sLang ELSE c.CookieName]

\* Language(cfg) falling back to the configured default as the only
\* supported language
LanguageDefaultAsSupported(c) ==
    LET m == {ToLower(c.Supported[i]) : i \in 1..Len(c.Supported)}
        d == ToLower(TrimSpace(c.Default))
    IN  [supportedMap |-> IF m = {} THEN {IF d = <<>> THEN sEn ELSE d} ELSE m,
         defaultLang  |-> IF d = <<>> THEN sEn ELSE d,
         queryParam   |-> IF c.QueryParam = <<>> THEN sLang ELSE c.QueryParam,
         cookieName   |-> IF c.CookieName = <<>> THEN sLang ELSE c.CookieName]

\* Language(cfg): supported map ("en" alone when none is configured),
\* normalised default, query parameter and cookie names
Language(c) ==
    LET m == {ToLower(c.Supported[i]) : i \in 1..Len(c.Supported)}
        d == ToLower(TrimSpace(c.Default))
    IN  [supportedMap |-> IF m = {} THEN {sEn} ELSE m,
         defaultLang  |-> IF d = <<>> THEN sEn ELSE d,
         queryParam   |-> IF c.QueryParam = <<>> THEN sLang ELSE c.QueryParam,
         cookieName   |-> IF c.CookieName = <<>> THEN sLang ELSE c.CookieName]

\* LanguageRedirect(cfg) without the empty-list guard
LanguageRedirectNoGuard(c) ==
    LET d == ToLower(TrimSpace(c.Default))
    IN  [passThrough    |-> FALSE,
         supportedMap   |-> BuildSupportedMap(c.Supported),
         defaultLang    |-> IF d = <<>> THEN sEn ELSE d,
         skipPaths      |-> IF Len(c.SkipPaths) = 0
                            THEN DefaultSkipPaths ELSE c.SkipPaths,
         skipExtensions |-> IF Len(c.SkipExtensions) = 0
                            THEN DefaultSkipExtensions ELSE c.SkipExtensions]

\* LanguageRedirect(cfg): a pass-through closure when no language is
\* configured, otherwise supported map, normalised default and skip lists
LanguageRedirect(c) ==
    LET d == ToLower(TrimSpace(c.Default))
    IN  [passThrough    |-> Len(c.Supported) = 0,
         supportedMap   |-> BuildSupportedMap(c.Supported),
         defaultLang    |-> IF d = <<>> THEN sEn ELSE d,
         skipPaths      |-> IF Len(c.SkipPaths) = 0
                            THEN DefaultSkipPaths ELSE c.SkipPaths,
         skipExtensions |-> IF Len(c.SkipExtensions) = 0
                            THEN DefaultSkipExtensions ELSE c.SkipExtensions]

(***************************************************************************)
(* Responses.                                                              *)
(***************************************************************************)
NoValue == [present |-> FALSE, value |-> <<>>]

NoSetCookie ==
    [present |-> FALSE, name |-> <<>>, value |-> <<>>, maxAge |-> 0,
     path |-> <<>>, domain |-> <<>>, sameSite |-> "default",
     secure |-> FALSE, httpOnly |-> FALSE]

\* a context.Context: nil, or a context that may carry a language under
\* languageKey
NilContext == [isNil |-> TRUE, present |-> FALSE, value |-> <<>>]

\* context.Background()
Background == [isNil |-> FALSE, present |-> FALSE, value |-> <<>>]

\* the gin context's "language" key: absent, a string, or a value of
\* another type
NoKey == [present |-> FALSE, isString |-> FALSE, value |-> <<>>]

StringKey(v) == [present |-> TRUE, isString |-> TRUE, value |-> v]

OtherKey == [present |-> TRUE, isString |-> FALSE, value |-> <<>>]

\* the outcome of a call: not made, returned a value, or panicked
NotCalled == [called |-> FALSE, panicked |-> FALSE, value |-> <<>>]

Returned(v) == [called |-> TRUE, panicked |-> FALSE, value |-> v]

Panicked == [called |-> TRUE, panicked |-> TRUE, value |-> <<>>]

\* the response and request-scoped slots before any middleware has run
BlankResp ==
    [status |-> 0, location |-> <<>>, setCookie |-> NoSetCookie,
     contentLanguage |-> NoValue, keyLanguage |-> NoKey,
     ctxLanguage |-> Background, next |-> FALSE, aborted |-> FALSE,
     handlerSaw |-> NotCalled]

\* WithLanguage that stores the language as written
WithLanguageAsWritten(ctx, lang) ==
    LET base == IF ctx.isNil THEN Background ELSE ctx
    IN  IF lang = <<>> THEN base
        ELSE [base EXCEPT !.present = TRUE, !.value = lang]

\* WithLanguage: Background for a nil context; the context unchanged for
\* "", otherwise carrying the lower-cased language
WithLanguage(ctx, lang) ==
    LET base == IF ctx.isNil THEN Background ELSE ctx
    IN  IF lang = <<>> THEN base
        ELSE [base EXCEPT !.present = TRUE, !.value = ToLower(lang)]

\* LanguageFromContext: "" for a nil context and when the context carries
\* no language
LanguageFromContext(ctx) ==
    IF ctx.isNil THEN <<>>
    ELSE IF ctx.present THEN ctx.value ELSE <<>>

\* GetLanguage: "en" for a nil gin context; the "language" key when it holds
\* a non-empty string; else the language of c.Request.Context(), which
\* dereferences c.Request; else "en"
GetLanguage(c) ==
    IF c.isNil THEN Returned(sEn)
    ELSE IF c.keyLanguage.present /\ c.keyLanguage.isString
            /\ c.keyLanguage.value # <<>>
         THEN Returned(c.keyLanguage.value)
    ELSE IF ~c.hasRequest THEN Panicked
    ELSE IF LanguageFromContext(c.ctxLanguage) # <<>>
         THEN Returned(LanguageFromContext(c.ctxLanguage))
    ELSE Returned(sEn)

\* a nil *gin.Context
NilGin ==
    [isNil |-> TRUE, hasRequest |-> FALSE, keyLanguage |-> NoKey,
     ctxLanguage |-> NilContext]

\* gin.CreateTestContext(w): no keys, c.Request not yet assigned
TestGin ==
    [isNil |-> FALSE, hasRequest |-> FALSE, keyLanguage |-> NoKey,
     ctxLanguage |-> NilContext]

\* a gin context whose c.Request carries the context x
RequestGin(x) ==
    [isNil |-> FALSE, hasRequest |-> TRUE, keyLanguage |-> NoKey,
     ctxLanguage |-> x]

\* the gin context a handler of the chain receives
GinContext(w) ==
    [isNil |-> FALSE, hasRequest |-> TRUE, keyLanguage |-> w.keyLanguage,
     ctxLanguage |-> w.ctxLanguage]

\* the downstream handler run by c.Next(): it reads GetLanguage(c)
Downstream(w) ==
    [w EXCEPT !.next = TRUE, !.handlerSaw = GetLanguage(GinContext(w))]

\* the Language handler storing nothing before c.Next()
LanguageHandleNoStore(m, r, w) ==
    LET lang == resolveLanguage(r, m.supportedMap, m.defaultLang,
                                m.queryParam, m.cookieName)
    IN  Downstream([w EXCEPT !.contentLanguage = [present |-> TRUE,
                                                  value |-> lang]])

\* the handler returned by Language: resolve, c.Set("language"), request
\* context, Content-Language header, c.Next()
LanguageHandle(m, r, w) ==
    LET lang == resolveLanguage(r, m.supportedMap, m.defaultLang,
                                m.queryParam, m.cookieName)
    IN  Downstream([w EXCEPT !.keyLanguage     = StringKey(lang),
                             !.ctxLanguage     = WithLanguage(w.ctxLanguage, lang),
                             !.contentLanguage = [present |-> TRUE,
                                                  value |-> lang]])

(***************************************************************************)
(* Package ids: prefix_base62 identifiers.                                 *)
(***************************************************************************)
base62Chars == Digits \o Upper \o Lower

\* the loop of encodeBase62: prepend base62Chars[num%62], num /= 62
RECURSIVE encodeLoop(_, _)
encodeLoop(num, result) ==
    IF num > 0
    THEN encodeLoop(num \div 62, <<base62Chars[(num % 62) + 1]>> \o result)
    ELSE result

\* encodeBase62: "0" for 0, otherwise the loop (which does not run for a
\* negative number)
encodeBase62(num) == IF num = 0 THEN <<"0">> ELSE encodeLoop(num, <<>>)

\* strings.IndexRune: 0-based index of the first occurrence, -1 if none
IndexRune(s, c) ==
    IF \E i \in 1..Len(s) : s[i] = c
    THEN (CHOOSE i \in 1..Len(s) :
             s[i] = c /\ \A j \in 1..(i - 1) : s[j] # c) - 1
    ELSE -1

\* the outcome of Parse / decodeBase62: (value, error)
NotParsed == [called |-> FALSE, err |-> FALSE, value |-> 0]

ParseOk(n) == [called |-> TRUE, err |-> FALSE, value |-> n]

ParseErr == [called |-> TRUE, err |-> TRUE, value |-> 0]

\* the loop of decodeBase62 from character i on
RECURSIVE decodeLoop(_, _, _)
decodeLoop(s, i, result) ==
    IF i > Len(s) THEN ParseOk(result)
    ELSE IF IndexRune(base62Chars, s[i]) = -1 THEN ParseErr
    ELSE decodeLoop(s, i + 1, result * 62 + IndexRune(base62Chars, s[i]))

decodeBase62(s) == decodeLoop(s, 1, 0)

\* Format over an alphabet with the lower-case letters before the
\* upper-case ones
FormatLowerFirst(prefix, id) ==
    LET alphabet == Digits \o Lower \o Upper
        enc[n \in Nat] ==
            IF n = 0 THEN <<>>
            ELSE enc[n \div 62] \o <<alphabet[(n % 62) + 1]>>
    IN  prefix \o <<"_">> \o (IF id = 0 THEN <<"0">>
                               ELSE IF id < 0 THEN <<>> ELSE enc[id])

\* Format: prefix + "_" + encodeBase62(id)
Format(prefix, id) == prefix \o <<"_">> \o encodeBase62(id)

\* Parse: an error unless prefixedID starts with prefix + "_", otherwise
\* decodeBase62 of the rest
Parse(prefix, prefixedID) ==
    LET expectedPrefix == prefix \o <<"_">>
    IN  IF ~HasPrefix(prefixedID, expectedPrefix) THEN ParseErr
        ELSE decodeBase62(TrimPrefix(prefixedID, expectedPrefix))

(***************************************************************************)
(* Packages pagination and response: Params, Bind, Normalize, has-more.    *)
(* Go's int and int64 are modelled IntBits wide; sums wrap around as Go's  *)
(* signed arithmetic does.                                                 *)
(***************************************************************************)
IntBits == 8

MaxInt == 2^(IntBits - 1) - 1

MinInt == -(2^(IntBits - 1))

\* the value an int holds after an operation whose exact result is x
WrapInt(x) == ((x - MinInt) % 2^IntBits) + MinInt

DefaultLimit == 20

MaxLimit == 100

\* strconv.Atoi: [+-]digits; a syntax error gives 0, a value out of range
\* gives the nearest bound, both with an error
Atoi(s) ==
    LET sgn  == s # <<>> /\ s[1] \in {"+", "-"}
        neg  == s # <<>> /\ s[1] = "-"
        body == IF sgn THEN Tail(s) ELSE s
    IN  IF body = <<>> \/ ~IsDigits(body) THEN [err |-> TRUE, value |-> 0]
        ELSE IF ~neg /\ DecVal(body) > MaxInt
             THEN [err |-> TRUE, value |-> MaxInt]
        ELSE IF neg /\ -DecVal(body) < MinInt
             THEN [err |-> TRUE, value |-> MinInt]
        ELSE [err |-> FALSE,
              value |-> IF neg THEN -DecVal(body) ELSE DecVal(body)]

ZeroParams == [Limit |-> 0, Offset |-> 0, Sort |-> <<>>]

\* Normalize that applies the default but not the cap
NormalizeNoCap(p, defaultLimit, maxLimit) ==
    [p EXCEPT !.Limit  = IF p.Limit <= 0 THEN defaultLimit ELSE p.Limit,
              !.Offset = IF p.Offset < 0 THEN 0 ELSE p.Offset]

\* Params.Normalize: default for a limit <= 0, then the cap, then offset
\* raised to 0
Normalize(p, defaultLimit, maxLimit) ==
    LET l1 == IF p.Limit <= 0 THEN defaultLimit ELSE p.Limit
        l2 == IF l1 > maxLimit THEN maxLimit ELSE l1
    IN  [p EXCEPT !.Limit  = l2,
                  !.Offset = IF p.Offset < 0 THEN 0 ELSE p.Offset]

\* Bind: Atoi of limit and offset with the errors dropped; sort, or
\* sort_by when sort is empty
Bind(c) ==
    [Limit  |-> Atoi(Query(c, <<"l","i","m","i","t">>)).value,
     Offset |-> Atoi(Query(c, <<"o","f","f","s","e","t">>)).value,
     Sort   |-> IF Query(c, <<"s","o","r","t">>) = <<>>
                THEN Query(c, <<"s","o","r","t","_","b","y">>)
                ELSE Query(c, <<"s","o","r","t">>)]

BindWithDefaults(c, defaultLimit, maxLimit) ==
    Normalize(Bind(c), defaultLimit, maxLimit)

BindDefault(c) == BindWithDefaults(c, DefaultLimit, MaxLimit)

\* HasMore: int64(offset+limit) < total, the sum taken in int
HasMore(offset, limit, total) == WrapInt(offset + limit) < total

\* HasMoreFromLen: int64(offset+resultLen) < total
HasMoreFromLen(offset, resultLen, total) == WrapInt(offset + resultLen) < total

\* NewList over a slice of dataLen items (nil becomes the empty slice)
NewList(dataLen, total, limit, offset) ==
    [Object |-> "list", DataLen |-> dataLen, Total |-> total, Limit |-> limit,
     Offset |-> offset, HasMore |-> WrapInt(offset + dataLen) < total]

\* no Params call made yet
NoCall == [fn |-> "none", before |-> ZeroParams, defaultLimit |-> 0,
           maxLimit |-> 0]

\* no has-more call made yet
NoHasMore == [fn |-> "none", offset |-> 0, count |-> 0, total |-> 0,
              result |-> FALSE, list |-> NewList(0, 0, 0, 0)]

(***************************************************************************)
(* Canonicalization.                                                       *)
(***************************************************************************)
\* shouldSkipRedirect: skip prefixes, health checks, runtime config,
\* case-insensitive extension suffixes
shouldSkipRedirect(path, skipPaths, skipExtensions) ==
    \/ \E i \in 1..Len(skipPaths) : HasPrefix(path, skipPaths[i])
    \/ path \in HealthPaths
    \/ path = RuntimeConfigPath
    \/ \E i \in 1..Len(skipExtensions) : HasSuffix(ToLower(path), skipExtensions[i])

\* detectPreferredLanguage honouring a ?lang= query value first
detectPreferredLanguageWithQuery(r, supportedMap, defaultLang) ==
    LET q  == ToLower(TrimSpace(Query(r, sLang)))
        ck == Cookie(r, LanguageCookieName)
        cv == ToLower(TrimSpace(ck.value))
        al == ParseAcceptLanguage(r.acceptLanguage, supportedMap)
    IN  IF q # <<>> /\ q \in supportedMap THEN q
        ELSE IF ~ck.err /\ ck.value # <<>> /\ cv \in supportedMap THEN cv
        ELSE IF r.acceptLanguage # <<>> /\ al # <<>> THEN al
        ELSE defaultLang

\* detectPreferredLanguage without the cookie step
detectPreferredLanguageNoCookie(r, supportedMap, defaultLang) ==
    LET al == ParseAcceptLanguage(r.acceptLanguage, supportedMap)
    IN  IF r.acceptLanguage # <<>> /\ al # <<>> THEN al ELSE defaultLang

\* detectPreferredLanguage answering the default whatever the request carries
detectPreferredLanguageDefaultOnly(r, supportedMap, defaultLang) == defaultLang

\* detectPreferredLanguage: cookie "lang", Accept-Language, default
detectPreferredLanguage(r, supportedMap, defaultLang) ==
    LET ck == Cookie(r, LanguageCookieName)
        cv == ToLower(TrimSpace(ck.value))
        h  == GetHeaderAcceptLanguage(r)
        al == ParseAcceptLanguage(h, supportedMap)
    IN  IF ~ck.err /\ ck.value # <<>> /\ cv \in supportedMap THEN cv
        ELSE IF h # <<>> /\ al # <<>> THEN al
        ELSE defaultLang

\* setLanguageCookie writing an HttpOnly cookie
setLanguageCookieHttpOnly(w, lang) ==
    [w EXCEPT !.setCookie =
        [present |-> TRUE, name |-> LanguageCookieName,
         value |-> QueryEscape(lang), maxAge |-> LanguageCookieMaxAge,
         path |-> <<"/">>, domain |-> <<>>, sameSite |-> "lax",
         secure |-> FALSE, httpOnly |-> TRUE]]

\* setLanguageCookie: SameSite=Lax, then SetCookie(name, value, maxAge,
\* "/", "", secure=false, httpOnly=false)
setLanguageCookie(w, lang) ==
    [w EXCEPT !.setCookie =
        [present |-> TRUE, name |-> LanguageCookieName,
         value |-> QueryEscape(lang), maxAge |-> LanguageCookieMaxAge,
         path |-> <<"/">>, domain |-> <<>>, sameSite |-> "lax",
         secure |-> FALSE, httpOnly |-> FALSE]]

\* the redirect URL with the query string dropped
RedirectURLDropQuery(r, preferredLang) == <<"/">> \o preferredLang \o r.path

\* the redirect URL built in the redirect branch
RedirectURL(r, preferredLang) ==
    <<"/">> \o preferredLang \o r.path
    \o (IF r.rawQuery # <<>> THEN <<"?">> \o r.rawQuery ELSE <<>>)

\* the handler accepting any 2-3 character first segment as a valid prefix
LanguageRedirectHandleAnyPrefix(m, r, w) ==
    LET langFromPath == extractLanguageFromPath(r.path)
    IN  IF m.passThrough THEN [w EXCEPT !.next = TRUE]
        ELSE IF shouldSkipRedirect(r.path, m.skipPaths, m.skipExtensions)
        THEN [w EXCEPT !.next = TRUE]
        ELSE IF langFromPath # <<>>
        THEN [setLanguageCookie(w, langFromPath) EXCEPT !.next = TRUE]
        ELSE [w EXCEPT
                !.status   = StatusFound,
                !.location = RedirectURL(r,
                    detectPreferredLanguage(r, m.supportedMap, m.defaultLang)),
                !.aborted  = TRUE]

\* the handler returned by LanguageRedirect
LanguageRedirectHandle(m, r, w) ==
    LET langFromPath == extractLanguageFromPath(r.path)
    IN  IF m.passThrough THEN [w EXCEPT !.next = TRUE]
        ELSE IF shouldSkipRedirect(r.path, m.skipPaths, m.skipExtensions)
        THEN [w EXCEPT !.next = TRUE]
        ELSE IF langFromPath # <<>> /\ langFromPath \in m.supportedMap
        THEN [setLanguageCookie(w, langFromPath) EXCEPT !.next = TRUE]
        ELSE [w EXCEPT
                !.status   = StatusFound,
                !.location = RedirectURL(r,
                    detectPreferredLanguage(r, m.supportedMap, m.defaultLang)),
                !.aborted  = TRUE]

(***************************************************************************)
(* Inputs: configurations, cookie jars and requests.                       *)
(***************************************************************************)
MaxHops == 2

sJa == <<"j","a">>

sFr == <<"f","r">>

sCk == <<"c","k">>

CookieNames == {sLang, sCk}

SupportedLists == { <<>>, <<sEn, <<"J","A">> >>, <<sJa>> }

Defaults == { <<>>, sFr, <<"J","A"," ">> }

ParamNames == { <<>>, <<"l">> }

CookieNameChoices == { <<>>, sCk }

SkipChoices ==
    { [paths |-> <<>>, exts |-> <<>>],
      [paths |-> << <<"/","s","/">> >>,
       exts |-> << <<".","t","x","t">>, <<".","P","D","F">> >>] }

LanguagePaths ==
    { <<"/","g">>, <<"/","e","n","/","g">>, <<"/","J","A","/","g">>,
      <<"/","f","r","/","g">> }

RedirectPaths ==
    LanguagePaths \cup
    { <<"/">>, <<"/","J","A">>, <<"/","a","p","i","/","x">>,
      <<"/","h","e","a","l","t","h">>, <<"/","a",".","J","S">>,
      <<"/","s","/","x">>, <<"/","x",".","t","x","t">>,
      <<"/","x",".","P","D","F">> }

LanguageQueries ==
    { <<>>, <<"l","a","n","g","=","+","J","A">>, <<"l","a","n","g","=","f","r">>,
      <<"l","=","e","n">> }

RedirectQueries == { <<>>, <<"l","a","n","g","=","j","a">>, <<"f","o","o","=","1">> }

Headers ==
    { <<>>,
      <<"f","r",",","d","e">>,
      <<"e","n",",","j","a">>,
      <<"f","r",","," ","J","A"," ",";"," ","q","=","0",".","5">>,
      <<"j","a","-","J","P",",","j","a",";","q","=","0",".","9",",",
        "e","n",";","q","=","0",".","8">>,
      <<"e","n",";","q","=","0",".","8",",","j","a",";","q","=","0",".","9">>,
      <<"j","a",";","q","=","a","b","c",",","e","n",";","q","=","0",".","5">>,
      <<"e","n",";","q","=","-","1">>,
      <<"e","n",";","x","=","1",";","q","=","0",".","5",",",
        "j","a",";","q","=","0",".","8">> }

LangCookieValues == { sJa, <<"+","E","N">>, sFr }

Held(v) == [present |-> TRUE, value |-> v]

\* the jars a browser can hold before its first request
Jars(langValues, ckValues) ==
    { [n \in CookieNames |-> IF n = sLang THEN a ELSE b] :
        a \in {NoValue} \cup {Held(v) : v \in langValues},
        b \in {NoValue} \cup {Held(v) : v \in ckValues} }

BlankReq ==
    [path |-> <<>>, rawQuery |-> <<>>, cookies |-> [n \in CookieNames |-> NoValue],
     acceptLanguage |-> <<>>, hops |-> 0]

(***************************************************************************)
(* State machine: a browser sends requests through one mounted middleware. *)
(***************************************************************************)
Constructed(lc, rc) ==
    /\ lcfg = lc
    /\ rcfg = rc
    /\ lm = Language(lc)
    /\ rm = LanguageRedirect(rc)
    /\ setBy = NoValue
    /\ req = BlankReq
    /\ resp = BlankResp
    /\ pc = "idle"

(***************************************************************************)
(* Requests served concurrently: each has its own *gin.Context and runs    *)
(* the statements of the Language handler in order; the closure's          *)
(* captured configuration is shared.                                       *)
(***************************************************************************)
NumWorkers == 2

Workers == 1..NumWorkers

\* a goroutine serving no request
IdleWorker ==
    [pc |-> "idle", req |-> BlankReq, lang |-> <<>>, keyLanguage |-> NoKey,
     ctxLanguage |-> Background, contentLanguage |-> NoValue,
     handlerSaw |-> NotCalled, handlerSawCtx |-> NotCalled]

NoResolution == [present |-> FALSE, req |-> BlankReq, lang |-> <<>>]

\* lang taken from whichever request resolved last, as a package-level
\* variable would hold it
resolveShared(ws, w, m) ==
    IF \E v \in DOMAIN ws : v # w /\ ws[v].pc \notin {"idle", "resolve"}
    THEN ws[CHOOSE v \in DOMAIN ws :
                v # w /\ ws[v].pc \notin {"idle", "resolve"}].lang
    ELSE resolveLanguage(ws[w].req, m.supportedMap, m.defaultLang,
                         m.queryParam, m.cookieName)

\* lang := resolveLanguage(c, supportedMap, defaultLang, queryParam,
\* cookieName) for the request of w
resolve(ws, w, m) ==
    resolveLanguage(ws[w].req, m.supportedMap, m.defaultLang,
                    m.queryParam, m.cookieName)

\* c.Set writing a slot common to all requests
SetProcessWide(ws, w, lang) ==
    [v \in DOMAIN ws |-> [ws[v] EXCEPT !.keyLanguage = StringKey(lang)]]

\* c.Set("language", lang) on the gin context of w
Set(ws, w, lang) == [ws EXCEPT ![w].keyLanguage = StringKey(lang)]

\* no router is mounted
WebIdle ==
    /\ Constructed([Supported |-> <<>>, Default |-> <<>>, QueryParam |-> <<>>,
                    CookieName |-> <<>>],
                   [Supported |-> <<>>, Default |-> <<>>, SkipPaths |-> <<>>,
                    SkipExtensions |-> <<>>])
    /\ jar = [n \in CookieNames |-> NoValue]

\* the accessors are not exercised outside the middleware
CtxIdle ==
    /\ goctx = Background
    /\ lastLang = NoValue
    /\ fromCtx = NotCalled
    /\ gc = NilGin
    /\ got = NotCalled

\* package ids is not used
IdsIdle ==
    /\ idPrefix = <<>>
    /\ idNum = 0
    /\ formatted = NotCalled
    /\ parseArg = [prefix |-> <<>>, text |-> <<>>]
    /\ parsed = NotParsed

\* no request is inside the handler
ConcIdle ==
    /\ workers = [w \in Workers |-> IdleWorker]
    /\ lastDone = NoResolution

\* packages pagination and response are not used
PagIdle ==
    /\ pq = BlankReq
    /\ params = ZeroParams
    /\ pcall = NoCall
    /\ hm = NoHasMore

\* a router with the Language middleware mounted
InitLanguage ==
    /\ CtxIdle /\ IdsIdle /\ ConcIdle /\ PagIdle
    /\ \E s \in SupportedLists, d \in Defaults, q \in ParamNames,
          k \in CookieNameChoices :
          Constructed([Supported |-> s, Default |-> d, QueryParam |-> q,
                       CookieName |-> k],
                      [Supported |-> s, Default |-> d, SkipPaths |-> <<>>,
                       SkipExtensions |-> <<>>])
    /\ jar \in Jars({<<"+","E","N">>, sFr}, {sJa})

\* a router with the LanguageRedirect middleware mounted
InitRedirect ==
    /\ CtxIdle /\ IdsIdle /\ ConcIdle /\ PagIdle
    /\ \E s \in SupportedLists, d \in Defaults, k \in SkipChoices :
          Constructed([Supported |-> s, Default |-> d, QueryParam |-> <<>>,
                       CookieName |-> <<>>],
                      [Supported |-> s, Default |-> d, SkipPaths |-> k.paths,
                       SkipExtensions |-> k.exts])
    /\ jar \in Jars(LangCookieValues, {})

\* the browser sends a request carrying its cookie jar
Receive(paths, queries, headers) ==
    /\ pc = "idle"
    /\ \E p \in paths, q \in queries, h \in headers :
          req' = [path |-> p, rawQuery |-> q, cookies |-> jar,
                  acceptLanguage |-> h, hops |-> 0]
    /\ resp' = BlankResp
    /\ pc' = "recv"
    /\ UNCHANGED <<lcfg, rcfg, lm, rm, jar, setBy>>
    /\ UNCHANGED <<ctxVars, idsVars, concVars, pagVars>>

ReceiveLanguage == Receive(LanguagePaths, LanguageQueries, Headers)

ReceiveRedirect == Receive(RedirectPaths, RedirectQueries, Headers)

\* the Language middleware handles the pending request
HandleLanguage ==
    /\ pc = "recv"
    /\ resp' = LanguageHandle(lm, req, resp)
    /\ pc' = "done"
    /\ UNCHANGED <<lcfg, rcfg, lm, rm, jar, setBy, req>>
    /\ UNCHANGED <<ctxVars, idsVars, concVars, pagVars>>

\* the LanguageRedirect middleware handles the pending request
HandleRedirect ==
    /\ pc = "recv"
    /\ resp' = LanguageRedirectHandle(rm, req, resp)
    /\ pc' = "done"
    /\ UNCHANGED <<lcfg, rcfg, lm, rm, jar, setBy, req>>
    /\ UNCHANGED <<ctxVars, idsVars, concVars, pagVars>>

\* the first path segment as the client wrote it
FirstSegment(path) == SplitN2(TrimPrefix(path, <<"/">>), "/")[1]

\* the browser stores the response's Set-Cookie
StoreCookie ==
    IF resp.setCookie.present
    THEN /\ jar' = [jar EXCEPT ![resp.setCookie.name] = Held(resp.setCookie.value)]
         /\ setBy' = Held(ToLower(FirstSegment(req.path)))
    ELSE UNCHANGED <<jar, setBy>>

\* the browser takes the response as final
Complete ==
    /\ pc = "done"
    /\ StoreCookie
    /\ req' = BlankReq
    /\ resp' = BlankResp
    /\ pc' = "idle"
    /\ UNCHANGED <<lcfg, rcfg, lm, rm>>
    /\ UNCHANGED <<ctxVars, idsVars, concVars, pagVars>>

\* the browser follows a 302 to its Location with the same cookies and headers
FollowRedirect ==
    /\ pc = "done"
    /\ resp.status = StatusFound
    /\ req.hops < MaxHops
    /\ StoreCookie
    /\ LET target == SplitN2(resp.location, "?")
       IN  req' = [path |-> target[1],
                   rawQuery |-> IF Len(target) = 2 THEN target[2] ELSE <<>>,
                   cookies |-> jar',
                   acceptLanguage |-> req.acceptLanguage,
                   hops |-> req.hops + 1]
    /\ resp' = BlankResp
    /\ pc' = "recv"
    /\ UNCHANGED <<lcfg, rcfg, lm, rm>>
    /\ UNCHANGED <<ctxVars, idsVars, concVars, pagVars>>

(***************************************************************************)
(* The accessors called directly: WithLanguage / LanguageFromContext on a  *)
(* context, GetLanguage on a gin context.                                  *)
(***************************************************************************)
\* languages handed to WithLanguage
ContextLanguages ==
    { <<>>, sJa, <<"J","A">>, <<"E","n">>, <<"f","R">> }

\* values found under the gin context's "language" key
KeyValues == { StringKey(<<>>), StringKey(sJa), StringKey(<<"J","A">>), OtherKey }

InitContext ==
    /\ WebIdle /\ IdsIdle /\ ConcIdle /\ PagIdle
    /\ goctx \in {NilContext, Background}
    /\ lastLang = NoValue
    /\ fromCtx = NotCalled
    /\ gc \in {NilGin, TestGin}
    /\ got = NotCalled

\* goctx = WithLanguage(goctx, l)
CallWithLanguage ==
    /\ \E l \in ContextLanguages :
          /\ goctx' = WithLanguage(goctx, l)
          /\ lastLang' = IF l = <<>> THEN lastLang ELSE Held(l)
    /\ fromCtx' = NotCalled
    /\ UNCHANGED <<gc, got>>
    /\ UNCHANGED <<webVars, idsVars, concVars, pagVars>>

\* LanguageFromContext(goctx)
CallLanguageFromContext ==
    /\ fromCtx' = Returned(LanguageFromContext(goctx))
    /\ UNCHANGED <<goctx, lastLang, gc, got>>
    /\ UNCHANGED <<webVars, idsVars, concVars, pagVars>>

\* a fresh context: nil or context.Background()
NewContext ==
    /\ goctx' \in {NilContext, Background}
    /\ lastLang' = NoValue
    /\ fromCtx' = NotCalled
    /\ UNCHANGED <<gc, got>>
    /\ UNCHANGED <<webVars, idsVars, concVars, pagVars>>

\* a fresh gin context: nil, one without a request, or one whose request
\* carries goctx (http.Request.WithContext panics on a nil context)
NewGinContext ==
    /\ gc' \in {NilGin, TestGin} \cup
               (IF goctx.isNil THEN {} ELSE {RequestGin(goctx)})
    /\ got' = NotCalled
    /\ UNCHANGED <<goctx, lastLang, fromCtx>>
    /\ UNCHANGED <<webVars, idsVars, concVars, pagVars>>

\* c.Set("language", v)
SetKey ==
    /\ ~gc.isNil
    /\ \E v \in KeyValues : gc' = [gc EXCEPT !.keyLanguage = v]
    /\ got' = NotCalled
    /\ UNCHANGED <<goctx, lastLang, fromCtx>>
    /\ UNCHANGED <<webVars, idsVars, concVars, pagVars>>

\* GetLanguage(c)
CallGetLanguage ==
    /\ got' = GetLanguage(gc)
    /\ UNCHANGED <<goctx, lastLang, fromCtx, gc>>
    /\ UNCHANGED <<webVars, idsVars, concVars, pagVars>>

NextContext ==
    \/ CallWithLanguage \/ CallLanguageFromContext \/ NewContext
    \/ NewGinContext \/ SetKey \/ CallGetLanguage

(***************************************************************************)
(* Package ids called directly.                                            *)
(***************************************************************************)
MaxId == 123

\* ids handed to Format
Ids == -1..MaxId

sPay == <<"p","a","y">>

sGal == <<"g","a","l">>

sUsr == <<"u","s","r">>

Prefixes == {sPay, sGal, sUsr, <<"p","a","y","_","1">>}

\* texts handed to Parse besides the ones Format returned
IdTexts ==
    { <<"p","a","y","_","1","Z">>, <<"g","a","l","_","1","Z">>,
      <<"p","a","y","_","1","z">>, <<"p","a","y","_","1","-">>,
      <<"p","a","y","1","Z">>, <<"p","a","y","_">> }

InitIds ==
    /\ WebIdle /\ CtxIdle /\ ConcIdle /\ PagIdle
    /\ idPrefix \in Prefixes
    /\ idNum \in Ids
    /\ formatted = NotCalled
    /\ parseArg = [prefix |-> <<>>, text |-> <<>>]
    /\ parsed = NotParsed

\* Format(idPrefix, idNum)
CallFormat ==
    /\ formatted' = Returned(Format(idPrefix, idNum))
    /\ UNCHANGED <<idPrefix, idNum, parseArg, parsed>>
    /\ UNCHANGED <<webVars, ctxVars, concVars, pagVars>>

\* Parse(p, text) of the text Format returned, under any prefix
ParseFormatted ==
    /\ formatted.called
    /\ \E p \in Prefixes :
          /\ parseArg' = [prefix |-> p, text |-> formatted.value]
          /\ parsed' = Parse(p, formatted.value)
    /\ UNCHANGED <<idPrefix, idNum, formatted>>
    /\ UNCHANGED <<webVars, ctxVars, concVars, pagVars>>

\* Parse(p, t) of a text from elsewhere
ParseText ==
    /\ \E p \in Prefixes, t \in IdTexts :
          /\ parseArg' = [prefix |-> p, text |-> t]
          /\ parsed' = Parse(p, t)
    /\ UNCHANGED <<idPrefix, idNum, formatted>>
    /\ UNCHANGED <<webVars, ctxVars, concVars, pagVars>>

NextIds == CallFormat \/ ParseFormatted \/ ParseText

(***************************************************************************)
(* Concurrent requests through the Language handler.                       *)
(***************************************************************************)
\* the requests that arrive concurrently
ConcurrentRequests ==
    { [BlankReq EXCEPT !.path = <<"/","g">>,
                       !.rawQuery = <<"l","a","n","g","=","+","J","A">>],
      [BlankReq EXCEPT !.path = <<"/","e","n","/","g">>],
      [BlankReq EXCEPT !.path = <<"/","g">>,
                       !.acceptLanguage = <<"e","n",";","q","=","0",".","8",",",
                                            "j","a",";","q","=","0",".","9">>],
      [BlankReq EXCEPT !.path = <<"/","g">>,
                       !.cookies = [n \in CookieNames |->
                                       IF n = sLang THEN Held(sFr) ELSE NoValue]] }

InitConcurrent ==
    /\ CtxIdle /\ IdsIdle /\ ConcIdle /\ PagIdle
    /\ \E s \in {<<>>, <<sEn, <<"J","A">>>>} :
          Constructed([Supported |-> s, Default |-> sFr, QueryParam |-> <<>>,
                       CookieName |-> <<>>],
                      [Supported |-> s, Default |-> sFr, SkipPaths |-> <<>>,
                       SkipExtensions |-> <<>>])
    /\ jar = [n \in CookieNames |-> NoValue]

\* gin hands a request with a fresh context to the handler
WArrive(w) ==
    /\ workers[w].pc = "idle"
    /\ \E r \in ConcurrentRequests :
          workers' = [workers EXCEPT ![w] = [IdleWorker EXCEPT !.pc = "resolve",
                                                               !.req = r]]
    /\ UNCHANGED lastDone

\* lang := resolveLanguage(...)
WResolve(w) ==
    /\ workers[w].pc = "resolve"
    /\ workers' = [workers EXCEPT ![w].lang = resolve(workers, w, lm),
                                  ![w].pc = "set"]
    /\ UNCHANGED lastDone

\* c.Set("language", lang)
WSet(w) ==
    /\ workers[w].pc = "set"
    /\ workers' = [Set(workers, w, workers[w].lang) EXCEPT ![w].pc = "ctx"]
    /\ UNCHANGED lastDone

\* c.Request = c.Request.WithContext(WithLanguage(c.Request.Context(), lang))
WWithContext(w) ==
    /\ workers[w].pc = "ctx"
    /\ workers' = [workers EXCEPT
                      ![w].ctxLanguage = WithLanguage(workers[w].ctxLanguage,
                                                      workers[w].lang),
                      ![w].pc = "header"]
    /\ UNCHANGED lastDone

\* c.Header("Content-Language", lang)
WHeader(w) ==
    /\ workers[w].pc = "header"
    /\ workers' = [workers EXCEPT
                      ![w].contentLanguage = [present |-> TRUE,
                                              value |-> workers[w].lang],
                      ![w].pc = "next"]
    /\ UNCHANGED lastDone

\* c.Next(): the request's own handler reads GetLanguage(c) and
\* LanguageFromContext(c.Request.Context())
WNext(w) ==
    /\ workers[w].pc = "next"
    /\ workers' = [workers EXCEPT
                      ![w].handlerSaw = GetLanguage(GinContext(workers[w])),
                      ![w].handlerSawCtx =
                          Returned(LanguageFromContext(workers[w].ctxLanguage)),
                      ![w].pc = "done"]
    /\ UNCHANGED lastDone

\* the request leaves the handler
WFinish(w) ==
    /\ workers[w].pc = "done"
    /\ lastDone' = [present |-> TRUE, req |-> workers[w].req,
                    lang |-> workers[w].lang]
    /\ workers' = [workers EXCEPT ![w] = IdleWorker]

NextConcurrent ==
    /\ \E w \in Workers :
          \/ WArrive(w) \/ WResolve(w) \/ WSet(w) \/ WWithContext(w)
          \/ WHeader(w) \/ WNext(w) \/ WFinish(w)
    /\ UNCHANGED <<webVars, ctxVars, idsVars, pagVars>>

(***************************************************************************)
(* Packages pagination and response called directly.                       *)
(***************************************************************************)
\* raw query strings of the request handed to Bind
PageQueries ==
    { <<>>,
      <<"l","i","m","i","t","=","5","0","&","o","f","f","s","e","t","=","1","0","0",
        "&","s","o","r","t","=","c">>,
      <<"s","o","r","t","_","b","y","=","n">>,
      <<"l","i","m","i","t","=","a","b","c","&","o","f","f","s","e","t","=","x">>,
      <<"l","i","m","i","t","=","-","3","&","o","f","f","s","e","t","=","-","7">>,
      <<"l","i","m","i","t","=","9","9","9","9","&","s","o","r","t","=","a",
        "&","s","o","r","t","_","b","y","=","b">>,
      <<"l","i","m","i","t","=","1",".","5","&","o","f","f","s","e","t","=">>,
      <<"o","f","f","s","e","t","=","-","9","9","9","9","&","l","i","m","i","t","=","-">> }

\* Params values handed to Normalize
ParamsValues ==
    { [Limit |-> l, Offset |-> o, Sort |-> <<>>] :
        l \in {MinInt, -1, 0, 1, DefaultLimit, MaxLimit, MaxLimit + 1, MaxInt},
        o \in {MinInt, -5, 0, 5, MaxInt} }

\* (defaultLimit, maxLimit) pairs with 1 <= defaultLimit <= maxLimit
LimitPairs ==
    { <<1, 1>>, <<5, 5>>, <<DefaultLimit, MaxLimit>>, <<1, MaxInt>>,
      <<MaxInt, MaxInt>> }

InitPagination ==
    /\ WebIdle /\ CtxIdle /\ IdsIdle /\ ConcIdle
    /\ pq \in {[BlankReq EXCEPT !.rawQuery = q] : q \in PageQueries}
    /\ params \in ParamsValues
    /\ pcall = NoCall
    /\ hm = NoHasMore

\* p := Bind(c)
CallBind ==
    /\ params' = Bind(pq)
    /\ pcall' = [NoCall EXCEPT !.fn = "Bind", !.before = params]
    /\ UNCHANGED <<pq, hm>>
    /\ UNCHANGED <<webVars, ctxVars, idsVars, concVars>>

\* p.Normalize(defaultLimit, maxLimit)
CallNormalize ==
    /\ \E dm \in LimitPairs :
          /\ params' = Normalize(params, dm[1], dm[2])
          /\ pcall' = [fn |-> "Normalize", before |-> params,
                       defaultLimit |-> dm[1], maxLimit |-> dm[2]]
    /\ UNCHANGED <<pq, hm>>
    /\ UNCHANGED <<webVars, ctxVars, idsVars, concVars>>

\* p := BindWithDefaults(c, defaultLimit, maxLimit)
CallBindWithDefaults ==
    /\ \E dm \in LimitPairs :
          /\ params' = BindWithDefaults(pq, dm[1], dm[2])
          /\ pcall' = [fn |-> "BindWithDefaults", before |-> params,
                       defaultLimit |-> dm[1], maxLimit |-> dm[2]]
    /\ UNCHANGED <<pq, hm>>
    /\ UNCHANGED <<webVars, ctxVars, idsVars, concVars>>

\* p := BindDefault(c)
CallBindDefault ==
    /\ params' = BindDefault(pq)
    /\ pcall' = [fn |-> "BindDefault", before |-> params,
                 defaultLimit |-> DefaultLimit, maxLimit |-> MaxLimit]
    /\ UNCHANGED <<pq, hm>>
    /\ UNCHANGED <<webVars, ctxVars, idsVars, concVars>>

NextPagination ==
    CallBind \/ CallNormalize \/ CallBindWithDefaults \/ CallBindDefault

\* offsets, limits and totals handed to the has-more functions
PageInts == {MinInt, -1, 0, 1, 2, 3, MaxInt}

\* lengths of the slices handed to HasMoreFromLen and NewList
PageLens == {0, 1, 2}

InitHasMore ==
    /\ WebIdle /\ CtxIdle /\ IdsIdle /\ ConcIdle
    /\ PagIdle

CallHasMore ==
    /\ \E o \in PageInts, l \in PageInts, t \in PageInts :
          hm' = [NoHasMore EXCEPT !.fn = "HasMore", !.offset = o, !.count = l,
                                  !.total = t, !.result = HasMore(o, l, t)]
    /\ UNCHANGED <<pq, params, pcall>>
    /\ UNCHANGED <<webVars, ctxVars, idsVars, concVars>>

CallHasMoreFromLen ==
    /\ \E o \in PageInts, n \in PageLens, t \in PageInts :
          hm' = [NoHasMore EXCEPT !.fn = "HasMoreFromLen", !.offset = o,
                                  !.count = n, !.total = t,
                                  !.result = HasMoreFromLen(o, n, t)]
    /\ UNCHANGED <<pq, params, pcall>>
    /\ UNCHANGED <<webVars, ctxVars, idsVars, concVars>>

CallNewList ==
    /\ \E o \in PageInts, n \in PageLens, t \in PageInts, l \in {0, DefaultLimit} :
          hm' = [fn |-> "NewList", offset |-> o, count |-> n, total |-> t,
                 result |-> NewList(n, t, l, o).HasMore,
                 list |-> NewList(n, t, l, o)]
    /\ UNCHANGED <<pq, params, pcall>>
    /\ UNCHANGED <<webVars, ctxVars, idsVars, concVars>>

NextHasMore == CallHasMore \/ CallHasMoreFromLen \/ CallNewList

NextLanguage == ReceiveLanguage \/ HandleLanguage \/ Complete

NextRedirect == ReceiveRedirect \/ HandleRedirect \/ Complete \/ FollowRedirect

SpecLanguage == InitLanguage /\ [][NextLanguage]_vars

SpecRedirect == InitRedirect /\ [][NextRedirect]_vars

\* the application serves each request, a followed redirect included,
\* through LanguageRedirect or through Language built from the same
\* supported list and default
NextAgreement ==
    ReceiveRedirect \/ HandleRedirect \/ HandleLanguage \/ Complete
        \/ FollowRedirect

SpecAgreement == InitRedirect /\ [][NextAgreement]_vars

SpecContext == InitContext /\ [][NextContext]_vars

SpecIds == InitIds /\ [][NextIds]_vars

SpecConcurrent == InitConcurrent /\ [][NextConcurrent]_vars

SpecPagination == InitPagination /\ [][NextPagination]_vars

SpecHasMore == InitHasMore /\ [][NextHasMore]_vars

(***************************************************************************)
(* Vocabulary of the properties, stated on the request and configuration   *)
(* rather than on the resolver's intermediate values.                      *)
(***************************************************************************)
Handled == pc = "done"

\* the locale the negotiation middleware stored for the handled request
Resolved == resp.keyLanguage.value

Negotiated == Handled /\ resp.keyLanguage.present

Redirected == resp.status = StatusFound

PassedThrough == resp.next /\ ~resp.aborted /\ resp.status # StatusFound

\* the query-parameter locale value, trimmed and lower-cased
QueryLocale == ToLower(TrimSpace(Query(req, lm.queryParam)))

QueryYields == QueryLocale \in lm.supportedMap

\* the first path segment is 2 or 3 characters long and, lower-cased, supported
PathLocale == ToLower(FirstSegment(req.path))

PathYields == Len(FirstSegment(req.path)) \in {2, 3} /\ PathLocale \in lm.supportedMap

\* the negotiation cookie's value, trimmed and lower-cased
CookieLocale == ToLower(TrimSpace(Cookie(req, lm.cookieName).value))

CookieYields == ~Cookie(req, lm.cookieName).err /\ CookieLocale \in lm.supportedMap

\* the parameters of a header entry: the ';'-separated texts after its range
EntryParams(part) ==
    LET idx == Index(part, ";")
    IN  IF idx = 0 THEN <<>>
        ELSE LET ps == Split(SubSeq(part, idx + 1, Len(part)), ";")
             IN  [i \in 1..Len(ps) |-> TrimSpace(ps[i])]

\* the quality of a header entry: the value of its q= parameter, 1.0 when it
\* has none or its value is no number
Quality(part) ==
    LET ps == EntryParams(part)
        qs == {i \in 1..Len(ps) : HasPrefix(ps[i], <<"q","=">>)}
    IN  IF qs = {} THEN 1000
        ELSE LET f == ParseFloat(TrimPrefix(ps[CHOOSE i \in qs : \A j \in qs : i <= j],
                                            <<"q","=">>))
             IN  IF f.err THEN 1000 ELSE f.v

\* the primary subtag of a header entry
PrimarySubtag(part) ==
    LET range == Split(part, ";")[1]
    IN  ToLower(TrimSpace(Split(range, "-")[1]))

HeaderEntries(h) ==
    LET ps == Split(h, ",") IN [i \in 1..Len(ps) |-> TrimSpace(ps[i])]

\* positions of the header entries whose primary subtag is supported
SupportedEntries(h, supported) ==
    {i \in 1..Len(HeaderEntries(h)) : PrimarySubtag(HeaderEntries(h)[i]) \in supported}

\* the earliest supported entry of maximal quality
BestEntry(h, supported) ==
    LET es  == HeaderEntries(h)
        sup == SupportedEntries(h, supported)
        top == {i \in sup : \A j \in sup : Quality(es[j]) <= Quality(es[i])}
    IN  PrimarySubtag(es[CHOOSE i \in top : \A j \in top : i <= j])

HeaderYields == SupportedEntries(req.acceptLanguage, lm.supportedMap) # {}

\* the languages the redirect configuration lists, lower-cased
RedirectSupported == {ToLower(rcfg.Supported[i]) : i \in 1..Len(rcfg.Supported)}

FirstSegmentSupported == ToLower(FirstSegment(req.path)) \in RedirectSupported

Exempt == shouldSkipRedirect(req.path, rm.skipPaths, rm.skipExtensions)

\* the request URL: path, then '?' and the raw query when there is one
RequestURL(r) ==
    r.path \o (IF r.rawQuery = <<>> THEN <<>> ELSE <<"?">> \o r.rawQuery)

\* the locale a redirect response points to: the first segment of Location
LocationLocale(w) == FirstSegment(SplitN2(w.location, "?")[1])

(***************************************************************************)
(* Canonicalization properties (checked under SpecRedirect).               *)
(***************************************************************************)
\* C1: a request that follows a canonicalization redirect, with the same
\* cookies and headers, is passed through and never redirected again.
C1_NoRedirectLoop ==
    (Handled /\ req.hops > 0) => PassedThrough

\* C2 as stated: a supported first segment is never redirected; an
\* unsupported or absent one is always redirected unless the path is exempt.
C2_Original ==
    Handled =>
        /\ FirstSegmentSupported => ~Redirected
        /\ (~FirstSegmentSupported /\ ~Exempt) => Redirected

\* C2, amended: the same, for a middleware configured with a non-empty
\* supported list; with an empty list nothing is ever redirected.
C2_PrefixDecidesRedirect ==
    Handled =>
        /\ FirstSegmentSupported => ~Redirected
        /\ (rcfg.Supported # <<>> /\ ~FirstSegmentSupported /\ ~Exempt) => Redirected
        /\ rcfg.Supported = <<>> => ~Redirected

\* C2 witness: /fr/g with "fr" unsupported has been redirected, although its
\* first segment looks like a locale
C2_Witness ==
    /\ Handled /\ Redirected /\ ~Exempt
    /\ FirstSegment(req.path) = sFr
    /\ rcfg.Supported # <<>>

\* C8: the locale of a redirect is the same for every other non-exempt,
\* unprefixed request that differs only in its path or query string.
C8_RedirectLocaleIgnoresPathAndQuery ==
    (Handled /\ Redirected) =>
        \A p \in RedirectPaths, q \in RedirectQueries :
            LET r2 == [req EXCEPT !.path = p, !.rawQuery = q]
                w2 == LanguageRedirectHandle(rm, r2, BlankResp)
            IN  w2.status = StatusFound => LocationLocale(w2) = LocationLocale(resp)

\* C8 witness: a redirect of a request whose query names a supported locale
\* that differs from the locale redirected to
C8_Witness ==
    /\ Handled /\ Redirected
    /\ ToLower(TrimSpace(Query(req, sLang))) \in rm.supportedMap
    /\ LocationLocale(resp) # ToLower(TrimSpace(Query(req, sLang)))

\* C9: once a prefixed request has set the preference cookie to L, a later
\* non-exempt unprefixed request carrying it, without Accept-Language, is
\* redirected to /L followed by the requested URL.
C9_CookieRoundTrip ==
    (/\ Handled /\ setBy.present
     /\ req.cookies[LanguageCookieName] = jar[LanguageCookieName]
     /\ req.acceptLanguage = <<>>
     /\ ~Exempt /\ ~FirstSegmentSupported)
    => (Redirected /\ resp.location = <<"/">> \o setBy.value \o RequestURL(req))

\* C9 witness: the cookie was set by an upper-case prefix and the next
\* request is redirected to the lower-case locale, which is not the default
C9_Witness ==
    /\ Handled /\ setBy.present /\ Redirected
    /\ req.acceptLanguage = <<>>
    /\ setBy.value # rm.defaultLang
    /\ req.hops = 0
    /\ HasPrefix(resp.location, <<"/">> \o setBy.value \o <<"/">>)

\* the request falls into the redirect branch of the handler
InRedirectBranch ==
    /\ rcfg.Supported # <<>>
    /\ ~Exempt
    /\ ~FirstSegmentSupported

C11_CookieWrittenOnlyOnValidPrefix ==
    Handled =>
        /\ resp.setCookie.present <=> (~Exempt /\ FirstSegmentSupported)
        /\ resp.setCookie.present =>
              /\ resp.setCookie.name = LanguageCookieName
              /\ resp.setCookie.value = ToLower(FirstSegment(req.path))
              /\ resp.setCookie.maxAge = 31536000
              /\ resp.setCookie.path = <<"/">>
              /\ resp.setCookie.sameSite = "lax"
              /\ ~resp.setCookie.secure /\ ~resp.setCookie.httpOnly
              /\ PassedThrough
        /\ (Redirected \/ Exempt) => ~resp.setCookie.present

\* C11 witness: an upper-case supported prefix has written the lower-case
\* locale over a different cookie the request carried
C11_Witness ==
    /\ Handled /\ resp.setCookie.present
    /\ FirstSegment(req.path) = <<"J","A">>
    /\ resp.setCookie.value = sJa
    /\ req.cookies[LanguageCookieName] = Held(sFr)

\* the path matches an exemption rule: a configured skip prefix, a
\* configured skip extension compared case-insensitively, or one of the
\* fixed operational paths
MatchesExemption ==
    \/ \E i \in 1..Len(rm.skipPaths) : HasPrefix(req.path, rm.skipPaths[i])
    \/ \E i \in 1..Len(rm.skipExtensions) :
          HasSuffix(ToLower(req.path), ToLower(rm.skipExtensions[i]))
    \/ req.path \in HealthPaths \cup {RuntimeConfigPath}

\* C12: a request whose path matches an exemption rule is passed to the next
\* handler with no redirect and no cookie written.
C12_EntryGuard ==
    (Handled /\ MatchesExemption) => (PassedThrough /\ ~resp.setCookie.present)

\* C13: with an empty supported list every request is passed through, never
\* redirected, and no cookie is written.
C13_EmptySupportedPassesThrough ==
    (Handled /\ rcfg.Supported = <<>>) =>
        (PassedThrough /\ ~Redirected /\ ~resp.setCookie.present)

\* C13 witness: an unprefixed, non-exempt request carrying a cookie and a
\* header has been passed through by the unconfigured middleware
C13_Witness ==
    /\ Handled /\ rcfg.Supported = <<>>
    /\ req.path = <<"/","g">>
    /\ req.cookies[LanguageCookieName].present
    /\ req.acceptLanguage # <<>>
    /\ PassedThrough

(***************************************************************************)
(* Negotiation properties (checked under SpecLanguage).                    *)
(***************************************************************************)
\* C3: a supported query-parameter value is the resolved locale, whatever
\* the path, cookie and Accept-Language header contain.
C3_QueryParamWins ==
    (Negotiated /\ QueryYields) => Resolved = QueryLocale

\* C3 witness: the query value wins over a different supported path prefix
C3_Witness ==
    /\ Negotiated /\ QueryYields /\ PathYields
    /\ PathLocale # QueryLocale
    /\ Resolved = QueryLocale

\* C4: with no query value, a supported first path segment of 2 or 3
\* characters is the resolved locale, whatever cookie and header contain.
C4_PathPrefixWins ==
    (Negotiated /\ Query(req, lm.queryParam) = <<>> /\ PathYields)
        => Resolved = PathLocale

\* C4 witness: the path prefix wins over a different supported cookie value
C4_Witness ==
    /\ Negotiated /\ Query(req, lm.queryParam) = <<>> /\ PathYields
    /\ CookieYields /\ CookieLocale # PathLocale
    /\ Resolved = PathLocale

\* C5: when neither query nor path yields a supported locale, a supported
\* cookie value is the resolved locale whatever the header says; an
\* unsupported cookie value is ignored and Accept-Language decides.
C5_CookieBeforeHeader ==
    (Negotiated /\ ~QueryYields /\ ~PathYields) =>
        LET al == ParseAcceptLanguage(req.acceptLanguage, lm.supportedMap)
        IN  IF CookieYields THEN Resolved = CookieLocale
            ELSE Resolved = (IF al # <<>> THEN al ELSE lm.defaultLang)

\* C5 witness: a supported cookie wins over a header naming another
\* supported locale
C5_Witness ==
    /\ Negotiated /\ ~QueryYields /\ ~PathYields /\ CookieYields
    /\ HeaderYields
    /\ BestEntry(req.acceptLanguage, lm.supportedMap) # CookieLocale
    /\ Resolved = CookieLocale

\* C6: when no higher-priority source matches, the resolved locale is the
\* supported header entry of maximal q (missing or unparsable q counting as
\* 1.0), the earliest one on ties.
C6_HeaderMaxQuality ==
    (Negotiated /\ ~QueryYields /\ ~PathYields /\ ~CookieYields /\ HeaderYields)
        => Resolved = BestEntry(req.acceptLanguage, lm.supportedMap)

\* C7: the resolver's result is a supported locale or the default; when no
\* source yields a supported locale it is the default, unvalidated.
C7_SupportedOrDefault ==
    Negotiated =>
        /\ Resolved \in lm.supportedMap \/ Resolved = lm.defaultLang
        /\ (~QueryYields /\ ~PathYields /\ ~CookieYields /\ ~HeaderYields)
               => Resolved = lm.defaultLang

\* C7 witness: no source yields and the default returned is not supported
C7_Witness ==
    /\ Negotiated
    /\ ~QueryYields /\ ~PathYields /\ ~CookieYields /\ ~HeaderYields
    /\ req.acceptLanguage # <<>>
    /\ lm.defaultLang \notin lm.supportedMap
    /\ Resolved = lm.defaultLang

\* C14: for every request the negotiation middleware sets Content-Language
\* to the resolved locale, stores it so that GetLanguage in the downstream
\* handler returns it, and always calls the next handler without aborting
\* or redirecting.
C14_LanguageAlwaysPassesOn ==
    Handled =>
        LET lang == resolveLanguage(req, lm.supportedMap, lm.defaultLang,
                                    lm.queryParam, lm.cookieName)
        IN  /\ resp.contentLanguage = [present |-> TRUE, value |-> lang]
            /\ resp.handlerSaw = Returned(lang)
            /\ LanguageFromContext(resp.ctxLanguage) = lang
            /\ resp.next /\ ~resp.aborted
            /\ resp.status = 0 /\ resp.location = <<>>
            /\ ~resp.setCookie.present

\* C14 witness: a request whose every source names an unsupported locale
\* was answered with the default and handed to the next handler
C14_Witness ==
    /\ Handled
    /\ lm.defaultLang = sFr /\ sFr \notin lm.supportedMap
    /\ req.acceptLanguage = <<"f","r",",","d","e">>
    /\ resp.handlerSaw = Returned(sFr)
    /\ resp.contentLanguage.value = sFr
    /\ resp.next

\* C17 as stated: when the negotiation configuration supplies no supported
\* locales, the resolver's supported set is the single-entry set containing
\* the configured default.
C17_Original ==
    lcfg.Supported = <<>> => lm.supportedMap = {lm.defaultLang}

\* C17: when the negotiation configuration supplies no supported locales,
\* the resolver's supported set is {"en"} whatever the configured default
\* is; a request naming "en" by query parameter resolves to "en", and every
\* request resolves to "en" or to the configured default.
C17_EmptySupportedMeansEnglish ==
    lcfg.Supported = <<>> =>
        /\ lm.supportedMap = {sEn}
        /\ Negotiated =>
              /\ QueryLocale = sEn => Resolved = sEn
              /\ Resolved \in {sEn, lm.defaultLang}

\* C17 witness: with no supported locale and default "fr", a request naming
\* the default by query parameter and "en" by path prefix resolved to "en"
C17_Witness ==
    /\ Negotiated
    /\ lcfg.Supported = <<>> /\ lm.defaultLang = sFr
    /\ QueryLocale = sFr
    /\ FirstSegment(req.path) = sEn
    /\ Resolved = sEn

(***************************************************************************)
(* Accessor properties (checked under SpecContext).                        *)
(***************************************************************************)
\* the gin context's "language" key holds a non-empty string
KeyHoldsLocale ==
    /\ ~gc.isNil
    /\ gc.keyLanguage.present /\ gc.keyLanguage.isString
    /\ gc.keyLanguage.value # <<>>

\* the locale carried by the context of the gin context's request, "" if none
RequestContextLocale ==
    IF ~gc.isNil /\ gc.hasRequest /\ gc.ctxLanguage.present
    THEN gc.ctxLanguage.value ELSE <<>>

\* C15: GetLanguage returns the primary slot's locale when it is a non-empty
\* string, otherwise the non-empty locale of the request's context,
\* otherwise "en"; it returns a non-empty string for every gin context, a
\* nil one included, and never fails.
C15_GetLanguageNeverFails ==
    got.called =>
        /\ ~got.panicked
        /\ got.value # <<>>
        /\ got.value = IF KeyHoldsLocale THEN gc.keyLanguage.value
                       ELSE IF RequestContextLocale # <<>>
                            THEN RequestContextLocale
                       ELSE sEn

\* C19: LanguageFromContext of a context returned by WithLanguage(ctx, l),
\* l non-empty, is l lower-cased; it is "" for a nil context and for a
\* context in which no language was stored.
C19_ContextRoundTrip ==
    fromCtx.called =>
        /\ ~fromCtx.panicked
        /\ lastLang.present => fromCtx.value = ToLower(lastLang.value)
        /\ goctx.isNil => fromCtx.value = <<>>
        /\ ~lastLang.present => fromCtx.value = <<>>

\* C19 witness: the last language stored on the context was "JA" and the
\* context yields "ja"
C19_Witness ==
    /\ fromCtx.called
    /\ lastLang = Held(<<"J","A">>)
    /\ fromCtx.value = sJa
    /\ ~goctx.isNil

(***************************************************************************)
(* Identifier properties (checked under SpecIds).                          *)
(***************************************************************************)
\* C20: Format encodes the id 123 as "1Z" (Format("pay", 123) = "pay_1Z",
\* Format("gal", 123) = "gal_1Z"), and Parse("pay", "pay_1Z") returns 123
\* with no error.
C20_DocumentedExample ==
    /\ (formatted.called /\ idNum = 123) =>
          formatted.value = idPrefix \o <<"_","1","Z">>
    /\ (parsed.called /\ parseArg = [prefix |-> sPay,
                                      text |-> <<"p","a","y","_","1","Z">>]) =>
          parsed = ParseOk(123)

(***************************************************************************)
(* Concurrency properties (checked under SpecConcurrent).                  *)
(***************************************************************************)
\* the locale the resolution order yields for the request of w under the
\* configuration the middleware was constructed with
OwnLocale(w) ==
    resolveLanguage(workers[w].req, Language(lcfg).supportedMap,
                    Language(lcfg).defaultLang, Language(lcfg).queryParam,
                    Language(lcfg).cookieName)

\* every request's stored locale is the one resolved from its own inputs,
\* from the moment it is stored until the request leaves, and its own
\* handler reads that locale
OwnLocaleStored ==
    \A w \in Workers :
        /\ workers[w].pc \in {"ctx", "header", "next", "done"} =>
              workers[w].keyLanguage = StringKey(OwnLocale(w))
        /\ workers[w].pc \in {"header", "next", "done"} =>
              LanguageFromContext(workers[w].ctxLanguage) = OwnLocale(w)
        /\ workers[w].pc = "done" =>
              /\ workers[w].handlerSaw = Returned(OwnLocale(w))
              /\ workers[w].handlerSawCtx = Returned(OwnLocale(w))
        /\ workers[w].pc \in {"idle", "resolve", "set"} =>
              workers[w].keyLanguage = NoKey

\* C16: under any interleaving of concurrently processed requests, each
\* request's stored locale, as its own handler reads it through GetLanguage
\* and LanguageFromContext, is the locale resolved from that request's own
\* inputs and is never changed by another request; the shared
\* configuration is never modified by request processing.
C16_RequestIsolation ==
    /\ []OwnLocaleStored
    /\ [][lm' = lm /\ lcfg' = lcfg]_vars

\* C16 witness: one request has read its own locale "ja" while another,
\* resolved to a different locale, has its locale stored
C16_Witness ==
    /\ workers[1].pc = "done"
    /\ workers[1].handlerSaw = Returned(sJa)
    /\ workers[2].pc \in {"ctx", "header", "next", "done"}
    /\ workers[2].keyLanguage = StringKey(sEn)

\* a request whose resolution has been made
HasResolved(w) == workers[w].pc \notin {"idle", "resolve"}

\* C18: two resolutions with identical request inputs under the same
\* configuration yield the same locale, whatever other requests were
\* resolved before or in between.
C18_Deterministic ==
    /\ \A v, w \in Workers :
          (HasResolved(v) /\ HasResolved(w) /\ workers[v].req = workers[w].req)
              => workers[v].lang = workers[w].lang
    /\ \A w \in Workers :
          (HasResolved(w) /\ lastDone.present /\ lastDone.req = workers[w].req)
              => workers[w].lang = lastDone.lang

\* C18 witness: a request resolved again after an identical one had left,
\* with a different request resolved in between, yields the same locale
C18_Witness ==
    /\ lastDone.present /\ lastDone.lang = sJa
    /\ HasResolved(1) /\ workers[1].req = lastDone.req
    /\ workers[1].lang = sJa
    /\ HasResolved(2) /\ workers[2].req # lastDone.req
    /\ workers[2].lang # sJa

\* the text Format returned was handed to Parse
ParsedFormatted ==
    formatted.called /\ parsed.called /\ parseArg.text = formatted.value

\* C21: for every prefix and every id >= 0, 0 included,
\* Parse(prefix, Format(prefix, id)) returns id with no error; Parse with a
\* prefix different from the one used to format returns an error.
C21_RoundTrip ==
    /\ (ParsedFormatted /\ parseArg.prefix = idPrefix /\ idNum >= 0) =>
          parsed = ParseOk(idNum)
    /\ (ParsedFormatted /\ parseArg.prefix # idPrefix) => parsed.err

\* C21 witness: the text of id 123, which needs a letter, was parsed back
\* under its own prefix
C21_Witness ==
    /\ ParsedFormatted
    /\ idNum = 123 /\ parseArg.prefix = idPrefix
    /\ parsed = ParseOk(123)

(***************************************************************************)
(* Pagination properties (checked under SpecPagination).                   *)
(***************************************************************************)
\* the last call normalized the Params
Normalized == pcall.fn \in {"Normalize", "BindWithDefaults", "BindDefault"}

\* C23: after Normalize(defaultLimit, maxLimit) with 1 <= defaultLimit <=
\* maxLimit, 1 <= Limit <= maxLimit and Offset >= 0; a limit already in
\* [1, maxLimit] and an offset already >= 0 are unchanged; Normalize is
\* idempotent; BindDefault yields 1 <= Limit <= 100 and Offset >= 0.
C23_NormalizeBounds ==
    /\ Normalized =>
          /\ 1 <= params.Limit /\ params.Limit <= pcall.maxLimit
          /\ params.Offset >= 0
          /\ Normalize(params, pcall.defaultLimit, pcall.maxLimit) = params
    /\ pcall.fn = "Normalize" =>
          /\ (1 <= pcall.before.Limit /\ pcall.before.Limit <= pcall.maxLimit)
                => params.Limit = pcall.before.Limit
          /\ pcall.before.Offset >= 0 => params.Offset = pcall.before.Offset
          /\ params.Sort = pcall.before.Sort
    /\ pcall.fn = "BindDefault" =>
          /\ 1 <= params.Limit /\ params.Limit <= 100
          /\ params.Offset >= 0

\* C23 witness: BindDefault on a query with a limit above the cap and no
\* valid offset
C23_Witness ==
    /\ pcall.fn = "BindDefault"
    /\ Bind(pq).Limit > 100
    /\ params.Limit = 100 /\ params.Offset = 0

\* the text is an optionally signed decimal integer
IsIntegerText(s) ==
    LET body == IF s # <<>> /\ s[1] \in {"+", "-"} THEN Tail(s) ELSE s
    IN  body # <<>> /\ IsDigits(body)

\* the integer an integer text denotes
IntegerOf(s) ==
    IF s[1] = "-" THEN -DecVal(Tail(s))
    ELSE IF s[1] = "+" THEN DecVal(Tail(s)) ELSE DecVal(s)

\* what the claim says Bind yields for a query value
BoundInt(s) == IF IsIntegerText(s) THEN IntegerOf(s) ELSE 0

\* C24: Bind yields 0 for Limit (Offset) when the limit (offset) query
\* value is absent or not a valid integer and the parsed integer otherwise;
\* Sort is the sort value, or the sort_by value when sort is empty.
C24_BindZeroOnInvalid ==
    pcall.fn = "Bind" =>
        /\ params.Limit = BoundInt(Query(pq, <<"l","i","m","i","t">>))
        /\ params.Offset = BoundInt(Query(pq, <<"o","f","f","s","e","t">>))
        /\ params.Sort = IF Query(pq, <<"s","o","r","t">>) # <<>>
                         THEN Query(pq, <<"s","o","r","t">>)
                         ELSE Query(pq, <<"s","o","r","t","_","b","y">>)

(***************************************************************************)
(* Has-more properties (checked under SpecHasMore).                        *)
(***************************************************************************)
\* C22: HasMore, HasMoreFromLen and the HasMore field of NewList are true
\* exactly when offset + count < total, the sum being the exact one, for
\* all offsets, counts and totals of the integer range.
C22_HasMoreExact ==
    hm.fn # "none" => (hm.result <=> (hm.offset + hm.count < hm.total))

(***************************************************************************)
(* Accept-Language parsing (checked under SpecLanguage).                   *)
(***************************************************************************)
\* no source before the header yields a supported locale, so the resolver
\* consults the header
HeaderConsulted == Negotiated /\ ~QueryYields /\ ~PathYields /\ ~CookieYields

\* the primary subtags of the header's supported entries
SupportedSubtags ==
    { PrimarySubtag(HeaderEntries(req.acceptLanguage)[i]) :
        i \in SupportedEntries(req.acceptLanguage, lm.supportedMap) }

\* C25: ParseAcceptLanguage returns "" if and only if no entry of the header
\* has a supported primary subtag: whenever at least one entry is
\* supported, whatever the q values, the result is the locale of a
\* supported entry and the resolver does not fall through to the default.
C25_EmptyOnlyWhenNoneSupported ==
    HeaderConsulted =>
        /\ ParseAcceptLanguage(req.acceptLanguage, lm.supportedMap) = <<>>
              <=> ~HeaderYields
        /\ HeaderYields => Resolved \in SupportedSubtags
        /\ ~HeaderYields => Resolved = lm.defaultLang

\* C26: the quality the parser gives an entry is the value of the q= token
\* among the entry's parameters, wherever it stands among them, and lies in
\* [0,1]; it is 1.0 only when there is no q= token or its value does not
\* parse.
C26_QualityFromQToken ==
    HeaderConsulted =>
        \A i \in 1..Len(HeaderEntries(req.acceptLanguage)) :
            LET part == HeaderEntries(req.acceptLanguage)[i]
            IN  part # <<>> =>
                  /\ EntryQ(part) = Quality(part)
                  /\ 0 <= EntryQ(part) /\ EntryQ(part) <= 1000

\* C27: after the negotiation middleware has run, the value in the
\* request's primary slot, the value carried by the request context and the
\* Content-Language header are equal, non-empty and lower-case, for every
\* request and configuration.
C27_StoresAgree ==
    Handled =>
        /\ resp.keyLanguage.present /\ resp.keyLanguage.isString
        /\ resp.contentLanguage.present
        /\ resp.keyLanguage.value = resp.contentLanguage.value
        /\ LanguageFromContext(resp.ctxLanguage) = resp.contentLanguage.value
        /\ resp.contentLanguage.value # <<>>
        /\ ToLower(resp.contentLanguage.value) = resp.contentLanguage.value

\* C27 witness: an upper-case default with trailing white space was the
\* only source and all three stores hold "ja"
C27_Witness ==
    /\ Handled
    /\ lcfg.Default = <<"J","A"," ">>
    /\ ~QueryYields /\ ~PathYields /\ ~CookieYields /\ ~HeaderYields
    /\ resp.keyLanguage.value = sJa
    /\ LanguageFromContext(resp.ctxLanguage) = sJa
    /\ resp.contentLanguage.value = sJa

(***************************************************************************)
(* Agreement of the two middlewares (checked under SpecAgreement).         *)
(***************************************************************************)
\* C28: when LanguageRedirect has redirected a request whose query string
\* carries no supported lang value to the URL prefixed with locale P, the
\* Language middleware with the same supported set, default and cookie name
\* resolves the redirected request, sent with the same cookies and headers,
\* to P.
C28_RedirectAgreesWithNegotiation ==
    (Negotiated /\ req.hops > 0 /\ ~QueryYields) =>
        Resolved = FirstSegment(req.path)

\* C28 witness: the redirect went to a default that is not supported, and
\* the negotiation of the redirected request fell through to that default
C28_Witness ==
    /\ Negotiated /\ req.hops > 0 /\ ~QueryYields
    /\ req.cookies[LanguageCookieName].present
    /\ req.acceptLanguage # <<>>
    /\ Resolved \notin lm.supportedMap
    /\ Resolved = FirstSegment(req.path)

====
